---- MODULE Spec2Model ----
(***************************************************************************)
(* Model of the span-overlap similarity estimator of the `similarity`      *)
(* crate: SpanhashTop::from_reader (the chunk hasher), SpanhashTop's       *)
(* IntoIterator (the sort), count_changes (the merge-join) and the two     *)
(* estimate_similarity entry points (src/main.rs works from file paths and *)
(* file sizes, src/diffcore.rs from two SpanhashTop values).               *)
(*                                                                         *)
(* Bytes are natural numbers, a file is a sequence of bytes, a SpanhashTop *)
(* is the set of its Spanhash records (one per distinct span content).     *)
(***************************************************************************)
EXTENDS Integers, Sequences, FiniteSets, TLC

\* ------------------------------------------------------------ constants
MAX_SCORE == 60000
MIN_SCORE == 30000
max_line_length == 64
LF == 10
CR == 13

\* ------------------------------------------------------------ bounds
\* Lines per input file in the estimator specification.
MaxLeftLines == 2
MaxRightLines == 2
\* Lines per input in the reader specification.
MaxReaderLines == 2
\* Lines per input file made of the two lines with colliding hash values.
MaxCollidingLines == 3

\* ------------------------------------------------------------ helpers
Min(a, b) == IF a < b THEN a ELSE b
Max(a, b) == IF a < b THEN b ELSE a

Rep(c, n) == [i \in 1..n |-> c]

RECURSIVE SumOcc(_)
\* Sum of the occurrences of a set of Spanhash records.
SumOcc(S) ==
    IF S = {} THEN 0
    ELSE LET e == CHOOSE x \in S : TRUE
         IN e.occurrences + SumOcc(S \ {e})

\* ------------------------------------------------------------ inputs
RECURSIVE full_files(_, _)
\* Concatenations of at most n lines of L.
full_files(L, n) ==
    IF n = 0 THEN {<<>>}
    ELSE LET P == full_files(L, n - 1)
         IN P \cup {p \o l : p \in P, l \in L}

\* Files of at most n lines: lines of L, the last one possibly a line of T
\* (a final line without a newline).
files(L, T, n) ==
    IF n = 0 THEN {<<>>}
    ELSE full_files(L, n) \cup {p \o t : p \in full_files(L, n - 1), t \in T}

terminators == {<<LF>>, <<CR, LF>>}

\* Lines of the estimator's inputs: "a" and a line whose CR falls on the
\* span limit, with either terminator, and a line longer than a span.
pair_contents == {<<97>>, Rep(97, max_line_length - 1)}
pair_lines ==
    {c \o t : c \in pair_contents, t \in terminators}
    \cup {Rep(97, max_line_length + 1) \o <<LF>>}
pair_tails == {<<97>>}

\* Two lines, "efahaeaaebphbiip" and "ejpeedfelolhljbc", whose spans have the
\* same hash value, 0xc47ea5a89246caff.
colliding_lines ==
    {<<101, 102, 97, 104, 97, 101, 97, 97, 101, 98, 112, 104, 98, 105, 105, 112, LF>>,
     <<101, 106, 112, 101, 101, 100, 102, 101, 108, 111, 108, 104, 108, 106, 98, 99, LF>>}
colliding_files == full_files(colliding_lines, MaxCollidingLines)

left_files == files(pair_lines, pair_tails, MaxLeftLines) \cup colliding_files
right_files == files(pair_lines, pair_tails, MaxRightLines) \cup colliding_files

\* Contents of the files whose metadata can be read but which File::open
\* refuses: only their sizes are ever seen.
locked_files == {<<>>, <<97, LF>>, <<97, LF, 97, LF, 97, LF, 97, LF, 97, LF>>}

\* Line contents of the reader's inputs: shorter than, as long as and longer
\* than a span.
reader_contents ==
    {<<97>>, Rep(97, max_line_length - 1), Rep(97, max_line_length + 1)}
reader_lines == {c \o t : c \in reader_contents, t \in terminators}
reader_files == files(reader_lines, reader_contents, MaxReaderLines)

\* ------------------------------------------------------------ chunk hasher
\* Position of the first needle in hay, 0-based, or -1 (None).
memchr(needle, hay) ==
    LET hits == {i \in 1..Len(hay) : hay[i] = needle}
    IN IF hits = {} THEN -1
       ELSE (CHOOSE i \in hits : \A j \in hits : i <= j) - 1

\* ---- u64 arithmetic of the hasher.  A u64 is the tuple of its four 16-bit
\* limbs, most significant limb first.
u64_zero == <<0, 0, 0, 0>>

\* a ^ b on 4-bit values.
xor4 ==
    [a \in 0..15 |-> [b \in 0..15 |->
        ((a + b) % 2)
        + 2 * (((a \div 2) + (b \div 2)) % 2)
        + 4 * (((a \div 4) + (b \div 4)) % 2)
        + 8 * (((a \div 8) + (b \div 8)) % 2)]]

RECURSIVE xor_nibbles(_, _, _)
\* a ^ b on values of n 4-bit digits.
xor_nibbles(a, b, n) ==
    IF n = 0 THEN 0
    ELSE xor4[a % 16][b % 16] + 16 * xor_nibbles(a \div 16, b \div 16, n - 1)

\* a ^ b on 16-bit limbs.
xor16(a, b) == xor_nibbles(a, b, 4)

\* x ^ y
u64_xor(x, y) ==
    <<xor16(x[1], y[1]), xor16(x[2], y[2]), xor16(x[3], y[3]), xor16(x[4], y[4])>>

\* x.wrapping_add(y)
wrapping_add(x, y) ==
    LET s4 == x[4] + y[4]
        s3 == x[3] + y[3] + (s4 \div 65536)
        s2 == x[2] + y[2] + (s3 \div 65536)
        s1 == x[1] + y[1] + (s2 \div 65536)
    IN <<s1 % 65536, s2 % 65536, s3 % 65536, s4 % 65536>>

\* x.rotate_left(b)
rotate_left(x, b) ==
    LET q == b \div 16
        r == b % 16
        limb(i) == x[((i - 1 + q) % 4) + 1]
    IN <<((limb(1) * 2^r) % 65536) + (limb(2) \div 2^(16 - r)),
         ((limb(2) * 2^r) % 65536) + (limb(3) \div 2^(16 - r)),
         ((limb(3) * 2^r) % 65536) + (limb(4) \div 2^(16 - r)),
         ((limb(4) * 2^r) % 65536) + (limb(1) \div 2^(16 - r))>>

\* x < y on u64
u64_lt(x, y) ==
    IF x[1] # y[1] THEN x[1] < y[1]
    ELSE IF x[2] # y[2] THEN x[2] < y[2]
    ELSE IF x[3] # y[3] THEN x[3] < y[3]
    ELSE x[4] < y[4]

\* ---- DefaultHasher: SipHash-1-3 with the key (0, 0).
\* DefaultHasher::new(): the state <<v0, v1, v2, v3>>, the key being zero:
\* 0x736f6d6570736575, 0x646f72616e646f6d, 0x6c7967656e657261,
\* 0x7465646279746573.
hasher_new ==
    << <<29551, 28005, 28787, 25973>>,
       <<25711, 29281, 28260, 28525>>,
       <<27769, 26469, 28261, 29281>>,
       <<29797, 25698, 31092, 25971>> >>

\* One SipRound over the state v = <<v0, v1, v2, v3>> (compress!), one
\* definition per pair of statements.
\* v0 = v0.wrapping_add(v1); v1 = v1.rotate_left(13);
round_add01(v) == <<wrapping_add(v[1], v[2]), rotate_left(v[2], 13), v[3], v[4]>>
\* v1 ^= v0; v0 = v0.rotate_left(32);
round_mix01(v) == <<rotate_left(v[1], 32), u64_xor(v[2], v[1]), v[3], v[4]>>
\* v2 = v2.wrapping_add(v3); v3 = v3.rotate_left(16);
round_add23(v) == <<v[1], v[2], wrapping_add(v[3], v[4]), rotate_left(v[4], 16)>>
\* v3 ^= v2;
round_mix23(v) == <<v[1], v[2], v[3], u64_xor(v[4], v[3])>>
\* v0 = v0.wrapping_add(v3); v3 = v3.rotate_left(21);
round_add03(v) == <<wrapping_add(v[1], v[4]), v[2], v[3], rotate_left(v[4], 21)>>
\* v3 ^= v0;
round_mix03(v) == <<v[1], v[2], v[3], u64_xor(v[4], v[1])>>
\* v2 = v2.wrapping_add(v1); v1 = v1.rotate_left(17);
round_add21(v) == <<v[1], rotate_left(v[2], 17), wrapping_add(v[3], v[2]), v[4]>>
\* v1 ^= v2; v2 = v2.rotate_left(32);
round_mix21(v) == <<v[1], u64_xor(v[2], v[3]), rotate_left(v[3], 32), v[4]>>

compress(v) ==
    round_mix21(round_add21(round_mix03(round_add03(
        round_mix23(round_add23(round_mix01(round_add01(v))))))))

RECURSIVE sip_rounds(_, _)
\* n SipRounds over the state v.
sip_rounds(v, n) ==
    IF n = 0 THEN v
    ELSE CHOOSE r \in {sip_rounds(nv, n - 1) : nv \in {compress(v)}} : TRUE

\* The bytes buf.hash(&mut hasher) writes: the length as a little-endian
\* usize, then the bytes of buf.
hash_bytes(data) ==
    <<Len(data) % 256, Len(data) \div 256, 0, 0, 0, 0, 0, 0>> \o data

\* Byte i of the 8 bytes of m behind offset k, bytes past the end of m read
\* as 0.
byte_at(m, k, i) == IF k + i <= Len(m) THEN m[k + i] ELSE 0

\* The little-endian u64 of the 8 bytes of m behind offset k.
load_u64(m, k) ==
    <<byte_at(m, k, 7) + 256 * byte_at(m, k, 8),
      byte_at(m, k, 5) + 256 * byte_at(m, k, 6),
      byte_at(m, k, 3) + 256 * byte_at(m, k, 4),
      byte_at(m, k, 1) + 256 * byte_at(m, k, 2)>>

\* state.v3 ^= w
xor_v3(v, w) == <<v[1], v[2], v[3], u64_xor(v[4], w)>>
\* state.v2 ^= w
xor_v2(v, w) == <<v[1], v[2], u64_xor(v[3], w), v[4]>>
\* state.v0 ^= w
xor_v0(v, w) == <<u64_xor(v[1], w), v[2], v[3], v[4]>>

\* The compression of one 8-byte word w into the state (1 c-round).
c_rounds(v, w) == xor_v0(sip_rounds(xor_v3(v, w), 1), w)

RECURSIVE hasher_write(_, _, _)
\* Every complete 8-byte word of m from offset k on, compressed in order.
hasher_write(v, m, k) ==
    IF k + 8 > Len(m) THEN v
    ELSE CHOOSE r \in {hasher_write(nv, m, k + 8) :
                          nv \in {c_rounds(v, load_u64(m, k))}} : TRUE

\* The word `tail` with the number n of bytes written in its top byte.
with_length(tail, n) ==
    <<tail[1] + 256 * (n % 256), tail[2], tail[3], tail[4]>>

\* v0 ^ v1 ^ v2 ^ v3
fold_xor(v) == u64_xor(u64_xor(v[1], v[2]), u64_xor(v[3], v[4]))

\* hasher.finish(): the last word holds the bytes left over and, in its top
\* byte, the number of bytes written; then v2 ^= 0xff and 3 d-rounds.
hasher_finish(v, m) ==
    fold_xor(sip_rounds(
        xor_v2(c_rounds(v, with_length(load_u64(m, 8 * (Len(m) \div 8)), Len(m))),
               <<0, 0, 0, 255>>), 3))

\* The hasher fed with the bytes m, finished.
finish_of(m) ==
    CHOOSE r \in {hasher_finish(v, m) :
                    v \in {hasher_write(hasher_new, m, 0)}} : TRUE

\* DefaultHasher::new(); buf.hash(&mut hasher); hasher.finish()
hash_of(data) == finish_of(hash_bytes(data))

\* The `end_idx` of one pass of the inner loop over the valid bytes of
\* the buffer (buf[..buf_len] in the source); 0 stands for `break`.
end_idx(bytes) ==
    LET idx == memchr(LF, bytes)
    IN IF idx # -1 THEN idx + 1
       ELSE IF Len(bytes) < max_line_length THEN 0
       ELSE max_line_length

\* The span that is hashed: the first e bytes of the buffer contents
\* `bytes`, CR of a final CRLF dropped in text mode.
span_of(bytes, e, is_bin) ==
    LET has_crlf == e > 1 /\ bytes[e] = LF /\ bytes[e - 1] = CR
    IN IF ~is_bin /\ has_crlf
       THEN Append(SubSeq(bytes, 1, e - 2), LF)
       ELSE SubSeq(bytes, 1, e)

RECURSIVE line_spans(_, _)
\* The spans from_reader cuts the bytes l into when l is the whole input:
\* the buffer holds at most max_line_length bytes of l at a time, and an
\* unterminated rest shorter than max_line_length is never cut.
line_spans(l, is_bin) ==
    LET window == SubSeq(l, 1, Min(Len(l), max_line_length))
        e == end_idx(window)
    IN IF e = 0 THEN {}
       ELSE {span_of(window, e, is_bin)}
            \cup line_spans(SubSeq(l, e + 1, Len(l)), is_bin)

\* The hash values of the spans of the input sets, computed once.
hash_cache ==
    LET lines == pair_lines \cup reader_lines \cup reader_contents
                 \cup colliding_lines
        spans == UNION {line_spans(l, b) : l \in lines, b \in BOOLEAN}
    IN {[data |-> d, hashval |-> hash_of(d)] : d \in spans}

\* let hashed = { let mut hasher = DefaultHasher::new();
\*                buf.hash(&mut hasher); hasher.finish() };
DefaultHasher(data) ==
    LET known == {e \in hash_cache : e.data = data}
    IN IF known # {} THEN (CHOOSE e \in known : TRUE).hashval
       ELSE hash_of(data)

\* h.entry(buf).or_insert((hashed, 0)); e.1 += cnt
entry_add(hm, data) ==
    LET cnt == Len(data)
    IN IF \E e \in hm : e.data = data
       THEN LET e == CHOOSE x \in hm : x.data = data
            IN (hm \ {e}) \cup {[e EXCEPT !.occurrences = @ + cnt]}
       ELSE hm \cup {[data |-> data, hashval |-> DefaultHasher(data),
                      occurrences |-> cnt]}

RECURSIVE split_spans(_, _, _)
\* The inner `while buf_len > 0` loop: cuts spans off the front of buf.
split_spans(buf, hm, is_bin) ==
    IF Len(buf) = 0 THEN [buf |-> buf, h |-> hm]
    ELSE LET e == end_idx(buf)
         IN IF e = 0 THEN [buf |-> buf, h |-> hm]
            ELSE split_spans(SubSeq(buf, e + 1, Len(buf)),
                             entry_add(hm, span_of(buf, e, is_bin)), is_bin)

\* State of from_reader at the top of its outer loop; pos is the number of
\* bytes the reader has handed out so far.
reader_start == [pos |-> 0, buf |-> <<>>, h |-> {}, is_done |-> FALSE]

\* read_ok with the bytes of the read stored at the front of the buffer
\* instead of behind the bytes already buffered.
read_ok_front(st, data, n, is_bin) ==
    LET nbuf == SubSeq(data, st.pos + 1, st.pos + n) \o st.buf
    IN IF Len(nbuf) < max_line_length
       THEN [st EXCEPT !.pos = @ + n, !.buf = nbuf]
       ELSE LET r == split_spans(nbuf, st.h, is_bin)
            IN [pos |-> st.pos + n, buf |-> r.buf, h |-> r.h,
                is_done |-> FALSE]

\* reader.read(..) returned Ok(n), n > 0.
read_ok(st, data, n, is_bin) ==
    LET nbuf == st.buf \o SubSeq(data, st.pos + 1, st.pos + n)
    IN IF Len(nbuf) < max_line_length
       THEN [st EXCEPT !.pos = @ + n, !.buf = nbuf]
       ELSE LET r == split_spans(nbuf, st.h, is_bin)
            IN [pos |-> st.pos + n, buf |-> r.buf, h |-> r.h,
                is_done |-> FALSE]

\* reader.read(..) returned Ok(0) or Err(_): both set is_done and fall
\* through to the inner loop.
read_end(st, is_bin) ==
    LET r == split_spans(st.buf, st.h, is_bin)
    IN [pos |-> st.pos, buf |-> r.buf, h |-> r.h, is_done |-> TRUE]

RECURSIVE reader_run(_, _, _)
reader_run(st, data, is_bin) ==
    IF st.is_done THEN st.h
    ELSE IF st.pos = Len(data) THEN reader_run(read_end(st, is_bin), data, is_bin)
    ELSE reader_run(read_ok(st, data,
                            Min(max_line_length - Len(st.buf), Len(data) - st.pos),
                            is_bin), data, is_bin)

\* SpanhashTop::from_reader over a source that delivers data and then
\* end-of-stream, every read filling the free buffer space.
from_reader(data, is_bin) == reader_run(reader_start, data, is_bin)

\* ------------------------------------------------------------ sort, merge
\* Spanhash::default()
default_spanhash == [data |-> <<>>, hashval |-> u64_zero, occurrences |-> 0]

\* The comparator handed to sort_by in SpanhashTop::into_iter.
compare(left_rec, right_rec) ==
    IF left_rec.occurrences = 0 /\ right_rec.occurrences = 0 THEN "Equal"
    ELSE IF left_rec.occurrences = 0 THEN "Greater"
    ELSE IF right_rec.occurrences = 0 THEN "Less"
    ELSE IF u64_lt(left_rec.hashval, right_rec.hashval) THEN "Less"
    ELSE IF u64_lt(right_rec.hashval, left_rec.hashval) THEN "Greater"
    ELSE "Equal"

\* x placed behind every element of the sorted sequence v that does not
\* compare Greater than x (Vec::sort_by is a stable sort).
insert_stable(v, x) ==
    LET later == {i \in 1..Len(v) : compare(x, v[i]) = "Less"}
        k == IF later = {} THEN Len(v) + 1
             ELSE CHOOSE i \in later : \A j \in later : i <= j
    IN SubSeq(v, 1, k - 1) \o <<x>> \o SubSeq(v, k, Len(v))

RECURSIVE sort_by(_, _, _)
sort_by(v, i, acc) ==
    IF i > Len(v) THEN acc ELSE sort_by(v, i + 1, insert_stable(acc, v[i]))

\* SpanhashTop::into_iter, for the iteration order `order` of the map.
into_iter(order) == sort_by(order, 1, <<>>)

RECURSIVE arrangements(_)
\* Every arrangement of the numbers of S in a sequence.
arrangements(S) ==
    IF S = {} THEN {<<>>}
    ELSE UNION {{<<i>> \o o : o \in arrangements(S \ {i})} : i \in S}

RECURSIVE records_of(_)
\* The records of top in one sequence.
records_of(top) ==
    IF top = {} THEN <<>>
    ELSE LET e == CHOOSE r \in top : TRUE
         IN <<e>> \o records_of(top \ {e})

\* The orders in which a HashMap holding the records of top may iterate:
\* every arrangement of its records.
iter_orders(top) ==
    LET recs == records_of(top)
    IN {[i \in 1..Len(recs) |-> recs[o[i]]] : o \in arrangements(1..Len(recs))}

\* dest_top.next().unwrap_or_default() once j - 1 records have been taken.
next_or_default(v, j) == IF j <= Len(v) THEN v[j] ELSE default_spanhash

RECURSIVE skip_smaller(_, _, _, _)
\* while d.occurrences != 0 { if d.hashval >= s.hashval { break; } ... }
skip_smaller(dst, j, s, added) ==
    LET d == next_or_default(dst, j)
    IN IF d.occurrences # 0 /\ u64_lt(d.hashval, s.hashval)
       THEN skip_smaller(dst, j + 1, s, added + d.occurrences)
       ELSE [j |-> j, added |-> added]

RECURSIVE drain(_, _, _)
\* while d.occurrences > 0 { literal_added += d.occurrences; ... }
drain(dst, j, added) ==
    LET d == next_or_default(dst, j)
    IN IF d.occurrences > 0 THEN drain(dst, j + 1, added + d.occurrences)
       ELSE added

\* merge_step whose else branch adds src_cnt instead of dst_cnt.
merge_step_src_cnt(s, d, acc) ==
    LET src_cnt == s.occurrences
        hit == d.occurrences > 0 /\ d.hashval = s.hashval
        dst_cnt == IF hit THEN d.occurrences ELSE 0
    IN [j |-> IF hit THEN acc.j + 1 ELSE acc.j,
        added |-> IF src_cnt < dst_cnt THEN acc.added + (dst_cnt - src_cnt)
                  ELSE acc.added,
        copied |-> acc.copied + src_cnt]

\* One pass of `while let Some(s) = source_top.next()` behind the skip loop.
merge_step(s, d, acc) ==
    LET src_cnt == s.occurrences
        hit == d.occurrences > 0 /\ d.hashval = s.hashval
        dst_cnt == IF hit THEN d.occurrences ELSE 0
    IN [j |-> IF hit THEN acc.j + 1 ELSE acc.j,
        added |-> IF src_cnt < dst_cnt THEN acc.added + (dst_cnt - src_cnt)
                  ELSE acc.added,
        copied |-> IF src_cnt < dst_cnt THEN acc.copied + src_cnt
                   ELSE acc.copied + dst_cnt]

RECURSIVE merge_loop(_, _, _, _)
merge_loop(src, dst, i, acc) ==
    IF i > Len(src)
    THEN [source_copied |-> acc.copied,
          literal_added |-> drain(dst, acc.j, acc.added)]
    ELSE LET sk == skip_smaller(dst, acc.j, src[i], acc.added)
             a1 == [j |-> sk.j, added |-> sk.added, copied |-> acc.copied]
         IN merge_loop(src, dst, i + 1,
                       merge_step(src[i], next_or_default(dst, sk.j), a1))

\* count_changes over the two sorted sequences.
count_changes(src, dst) ==
    merge_loop(src, dst, 1, [j |-> 1, added |-> 0, copied |-> 0])

\* ------------------------------------------------------------ scores
\* A returned f64 score num/den; den = 0 is the result of a division by a
\* zero max_size (0.0 / 0.0, NaN).
score_zero == [num |-> 0, den |-> 1]
score_max == [num |-> MAX_SCORE, den |-> 1]
no_score == [num |-> -1, den |-> 1]
score_of(copied, max_size) == [num |-> copied * MAX_SCORE, den |-> max_size]
score_is(s, v) == s.den > 0 /\ s.num = v * s.den

\* max_size as f64 * (MAX_SCORE - MIN_SCORE) < delta_size as f64 * MAX_SCORE
size_guard(left_size, right_size) ==
    LET max_size == Max(left_size, right_size)
        base_size == Min(left_size, right_size)
        delta_size == max_size - base_size
    IN max_size * (MAX_SCORE - MIN_SCORE) < delta_size * MAX_SCORE

\* SpanhashTop::len
top_len(top) == SumOcc(top)

\* ------------------------------------------------------------ state
VARIABLES
    impl,           \* "main" (src/main.rs) or "diffcore" (src/diffcore.rs)
    left, right,    \* contents of the two files
    left_exists, right_exists,   \* fs::metadata of the path succeeds
    left_opens, right_opens,     \* File::open of the path succeeds
    is_binary,
    pc,             \* estimator: "start", "hashed", "done", "failed"
    error,          \* the file whose Err the estimator returned, or "none"
    left_top, right_top,     \* the SpanhashTop of each file
    source_top, dest_top,    \* the sorted sequences count_changes walks
    source_copied, literal_added,
    merged,         \* count_changes has run
    result,         \* the score estimate_similarity returned
    input,          \* reader: the bytes the source delivers
    pos, buf, h, is_done,    \* reader: from_reader's locals
    rpc,            \* reader: "reading", "returned"
    read_err,       \* reader: a read() call failed
    short_read,     \* reader: a read() returned less than the free space
    ret             \* reader: what from_reader returned

est_vars == <<impl, left, right, left_exists, right_exists, left_opens,
              right_opens, pc, error,
              left_top, right_top, source_top, dest_top, source_copied,
              literal_added, merged, result>>
rd_vars == <<input, pos, buf, h, is_done, rpc, read_err, short_read, ret>>
vars == <<est_vars, rd_vars, is_binary>>

no_ret == [ok |-> FALSE, top |-> {}]

est_idle ==
    /\ impl = "none" /\ left = <<>> /\ right = <<>> /\ pc = "idle"
    /\ left_exists = FALSE /\ right_exists = FALSE
    /\ left_opens = FALSE /\ right_opens = FALSE /\ error = "none"
    /\ left_top = {} /\ right_top = {} /\ source_top = <<>> /\ dest_top = <<>>
    /\ source_copied = 0 /\ literal_added = 0 /\ merged = FALSE
    /\ result = no_score

rd_idle ==
    /\ input = <<>> /\ pos = 0 /\ buf = <<>> /\ h = {} /\ is_done = FALSE
    /\ rpc = "idle" /\ read_err = FALSE /\ short_read = FALSE /\ ret = no_ret

\* ------------------------------------------------------------ reader
ReaderInit ==
    /\ est_idle
    /\ input \in reader_files
    /\ is_binary \in BOOLEAN
    /\ pos = 0 /\ buf = <<>> /\ h = {} /\ is_done = FALSE
    /\ rpc = "reading" /\ read_err = FALSE /\ short_read = FALSE
    /\ ret = no_ret

rd_state == [pos |-> pos, buf |-> buf, h |-> h, is_done |-> is_done]

\* One pass of the outer loop whose read() returns Ok(n), n > 0.
ReadOk ==
    /\ rpc = "reading" /\ ~is_done /\ pos < Len(input)
    /\ LET room == Min(max_line_length - Len(buf), Len(input) - pos)
       IN \E n \in 1..room :
            LET st == read_ok(rd_state, input, n, is_binary)
            IN /\ pos' = st.pos /\ buf' = st.buf /\ h' = st.h
               /\ is_done' = st.is_done
               /\ short_read' = (short_read \/ n < room)
    /\ UNCHANGED <<est_vars, is_binary, input, rpc, read_err, ret>>

\* The pass whose read() returns Ok(0) at end-of-stream; the loop ends and
\* from_reader returns Ok(SpanhashTop(h)).
ReadEof ==
    /\ rpc = "reading" /\ ~is_done /\ pos = Len(input)
    /\ LET st == read_end(rd_state, is_binary)
       IN /\ pos' = st.pos /\ buf' = st.buf /\ h' = st.h
          /\ is_done' = st.is_done
          /\ ret' = [ok |-> TRUE, top |-> st.h]
    /\ rpc' = "returned"
    /\ UNCHANGED <<est_vars, is_binary, input, read_err, short_read>>

\* The pass whose read() returns Err(_): is_done is set, the buffered bytes
\* are cut as usual and from_reader returns Ok(SpanhashTop(h)).
ReadErr ==
    /\ rpc = "reading" /\ ~is_done
    /\ LET st == read_end(rd_state, is_binary)
       IN /\ pos' = st.pos /\ buf' = st.buf /\ h' = st.h
          /\ is_done' = st.is_done
          /\ ret' = [ok |-> TRUE, top |-> st.h]
    /\ rpc' = "returned"
    /\ read_err' = TRUE
    /\ UNCHANGED <<est_vars, is_binary, input, short_read>>

ReaderNext == ReadOk \/ ReadEof \/ ReadErr

ReaderSpec == ReaderInit /\ [][ReaderNext]_vars

\* ------------------------------------------------------------ estimator
Init ==
    /\ rd_idle
    /\ impl \in {"main", "diffcore"}
    /\ left_exists \in BOOLEAN
    /\ right_exists \in BOOLEAN
    /\ left_opens \in (IF left_exists THEN BOOLEAN ELSE {FALSE})
    /\ right_opens \in (IF right_exists THEN BOOLEAN ELSE {FALSE})
    /\ left \in (IF ~left_exists THEN {<<>>}
                 ELSE IF ~left_opens THEN locked_files ELSE left_files)
    /\ right \in (IF ~right_exists THEN {<<>>}
                  ELSE IF ~right_opens THEN locked_files ELSE right_files)
    /\ is_binary \in BOOLEAN
    /\ pc = "start" /\ error = "none"
    /\ left_top = {} /\ right_top = {} /\ source_top = <<>> /\ dest_top = <<>>
    /\ source_copied = 0 /\ literal_added = 0 /\ merged = FALSE
    /\ result = no_score

\* count_changes(lt, rt) followed by the final division by max_size, for
\* some iteration order of each of the two maps.
count_and_score(lt, rt, max_size) ==
    \E st \in {into_iter(lo) : lo \in iter_orders(lt)},
       dt \in {into_iter(ro) : ro \in iter_orders(rt)} :
        \E c \in {count_changes(st, dt)} :
            /\ source_top' = st /\ dest_top' = dt
            /\ source_copied' = c.source_copied
            /\ literal_added' = c.literal_added
            /\ merged' = TRUE
            /\ result' = score_of(c.source_copied, max_size)

\* estimate_similarity or from_file returns the Err of the file `which`.
fail_with(which) ==
    /\ pc' = "failed" /\ error' = which
    /\ UNCHANGED <<left_top, right_top, source_top, dest_top, source_copied,
                   literal_added, merged, result>>

\* src/main.rs estimate_similarity: get_file_size of each path, Err when
\* the metadata cannot be read; the sizes are the files' sizes in bytes;
\* behind the guard count_changes opens and hashes both files itself, Err
\* when a file cannot be opened.
main_estimate_similarity ==
    /\ impl = "main" /\ pc = "start"
    /\ IF ~left_exists THEN fail_with("left")
       ELSE IF ~right_exists THEN fail_with("right")
       ELSE LET left_size == Len(left)
                right_size == Len(right)
                max_size == Max(left_size, right_size)
            IN IF size_guard(left_size, right_size)
               THEN /\ pc' = "done" /\ error' = error
                    /\ result' = score_zero
                    /\ UNCHANGED <<left_top, right_top, source_top,
                                   dest_top, source_copied, literal_added,
                                   merged>>
               ELSE IF ~left_opens THEN fail_with("left")
               ELSE IF ~right_opens THEN fail_with("right")
               ELSE /\ pc' = "done" /\ error' = error
                    /\ \E lt \in {from_reader(left, is_binary)},
                          rt \in {from_reader(right, is_binary)} :
                           /\ left_top' = lt /\ right_top' = rt
                           /\ count_and_score(lt, rt, max_size)
    /\ UNCHANGED <<impl, left, right, left_exists, right_exists, left_opens,
                   right_opens, is_binary, rd_vars>>

\* SpanhashTop::from_file on each of the two files, as the caller of
\* src/diffcore.rs estimate_similarity prepares its arguments; Err when
\* File::open fails.
from_file ==
    /\ impl = "diffcore" /\ pc = "start"
    /\ IF ~left_opens THEN fail_with("left")
       ELSE IF ~right_opens THEN fail_with("right")
       ELSE /\ left_top' = from_reader(left, is_binary)
            /\ right_top' = from_reader(right, is_binary)
            /\ pc' = "hashed" /\ error' = error
            /\ UNCHANGED <<source_top, dest_top, source_copied,
                           literal_added, merged, result>>
    /\ UNCHANGED <<impl, left, right, left_exists, right_exists, left_opens,
                   right_opens, is_binary, rd_vars>>

\* src/diffcore.rs estimate_similarity: the sizes are SpanhashTop::len.
diffcore_estimate_similarity ==
    /\ impl = "diffcore" /\ pc = "hashed"
    /\ LET left_size == top_len(left_top)
           right_size == top_len(right_top)
           max_size == Max(left_size, right_size)
       IN IF size_guard(left_size, right_size)
          THEN /\ result' = score_zero
               /\ UNCHANGED <<source_top, dest_top, source_copied,
                              literal_added, merged>>
          ELSE IF left_size = 0 /\ right_size = 0
          THEN /\ result' = score_max
               /\ UNCHANGED <<source_top, dest_top, source_copied,
                              literal_added, merged>>
          ELSE IF left_size = 0 \/ right_size = 0
          THEN /\ result' = score_zero
               /\ UNCHANGED <<source_top, dest_top, source_copied,
                              literal_added, merged>>
          ELSE count_and_score(left_top, right_top, max_size)
    /\ pc' = "done"
    /\ UNCHANGED <<impl, left, right, left_exists, right_exists, left_opens,
                   right_opens, is_binary, error, left_top, right_top,
                   rd_vars>>

Next == main_estimate_similarity \/ from_file \/ diffcore_estimate_similarity

Spec == Init /\ [][Next]_vars

\* ------------------------------------------------------------ properties
\* The sizes estimate_similarity compares: file sizes in src/main.rs,
\* SpanhashTop::len in src/diffcore.rs.
seen_left_size == IF impl = "main" THEN Len(left) ELSE top_len(left_top)
seen_right_size == IF impl = "main" THEN Len(right) ELSE top_len(right_top)
seen_max_size == Max(seen_left_size, seen_right_size)
seen_delta_size == seen_max_size - Min(seen_left_size, seen_right_size)

\* Both files have been hashed in this run.
tops_built == pc = "hashed" \/ (pc = "done" /\ (impl = "diffcore" \/ merged))

\* C1: estimate_similarity(F, F, is_binary) returns exactly MAX_SCORE for
\* every file F in both modes.
C1_IdenticalIsMax ==
    (pc = "done" /\ left = right) => score_is(result, MAX_SCORE)

\* C2: both inputs empty gives MAX_SCORE, exactly one input empty gives 0,
\* and the final division is never made with max_size = 0.
C2_EmptyOutcomes ==
    pc = "done" =>
        /\ (Len(left) = 0 /\ Len(right) = 0) => score_is(result, MAX_SCORE)
        /\ ((Len(left) = 0) # (Len(right) = 0)) => score_is(result, 0)
        /\ result.den # 0

\* C3: for inputs not both empty, delta >= (MAX_SCORE - MIN_SCORE)
\* / MAX_SCORE * max size (equality included) gives exactly 0.
C3_GuardInclusive ==
    (/\ pc = "done"
     /\ seen_max_size > 0
     /\ seen_delta_size * MAX_SCORE >= seen_max_size * (MAX_SCORE - MIN_SCORE))
    => score_is(result, 0)

\* The file with the CR of every CRLF pair removed.
lf_normal(data) ==
    LET kept == {i \in 1..Len(data) :
                    ~(data[i] = CR /\ i < Len(data) /\ data[i + 1] = LF)}
    IN [k \in 1..Cardinality(kept) |->
          data[CHOOSE i \in kept : Cardinality({j \in kept : j <= i}) = k]]

\* Number of bytes up to and including the last newline.
terminated_len(data) ==
    LET hits == {i \in 1..Len(data) : data[i] = LF}
    IN IF hits = {} THEN 0 ELSE CHOOSE i \in hits : \A j \in hits : j <= i

\* C4: in text mode two inputs that differ only in CRLF versus LF line
\* terminators have equal SpanhashTop values, for lines of any length; in
\* binary mode the CRLF bytes stay in the spans and are counted.
C4_CrlfNormalized ==
    tops_built =>
        /\ (~is_binary /\ lf_normal(left) = lf_normal(right))
              => left_top = right_top
        /\ is_binary => top_len(left_top) = terminated_len(left)

\* C5: a failed read() makes from_reader return Err, never Ok with the
\* spans of the bytes read before the failure.
C5_ReadErrorPropagates ==
    (rpc = "returned" /\ read_err) => ~ret.ok

\* C6: for fixed contents the (source_copied, literal_added) pair and the
\* score are the same for every iteration order of the two maps, colliding
\* hash values included.
C6_OrderIndependent ==
    merged =>
        \A lo \in iter_orders(left_top), ro \in iter_orders(right_top) :
            LET c == count_changes(into_iter(lo), into_iter(ro))
            IN /\ c.source_copied = source_copied
               /\ c.literal_added = literal_added

hashes_distinct(top) ==
    \A a \in top, b \in top : a.hashval = b.hashval => a = b

RECURSIVE common_min_sum(_, _)
\* Sum over the hash values present in both tops of the smaller occurrence.
common_min_sum(lt, rt) ==
    IF lt = {} THEN 0
    ELSE LET a == CHOOSE x \in lt : TRUE
             m == {b \in rt : b.hashval = a.hashval}
         IN (IF m = {} THEN 0
             ELSE Min(a.occurrences, (CHOOSE b \in m : TRUE).occurrences))
            + common_min_sum(lt \ {a}, rt)

\* C7: when the spans of each file have pairwise distinct hash values,
\* source_copied is the sum over the hash values present in both files of
\* min(left occurrence, right occurrence).
C7_MergeJoin ==
    (merged /\ hashes_distinct(left_top) /\ hashes_distinct(right_top))
    => source_copied = common_min_sum(left_top, right_top)

\* C7 witness: a merge with a shared span of unequal occurrences, a span only the left
\* file has and a span only the right file has.
C7_Witness ==
    /\ merged /\ hashes_distinct(left_top) /\ hashes_distinct(right_top)
    /\ \E a \in left_top, b \in right_top :
          a.hashval = b.hashval /\ a.occurrences # b.occurrences
    /\ \E a \in left_top : \A b \in right_top : a.hashval # b.hashval
    /\ \E b \in right_top : \A a \in left_top : a.hashval # b.hashval
    /\ source_copied > 0 /\ literal_added > 0

\* C8: in binary mode, read to end-of-stream, the occurrences of the
\* returned SpanhashTop sum to the number of input bytes, the bytes of an
\* unterminated final line included.
C8_ByteConservation ==
    (rpc = "returned" /\ ~read_err /\ is_binary)
    => top_len(ret.top) = Len(input)

occ_then_hash_sorted(v) ==
    \A i \in 1..Len(v), j \in 1..Len(v) :
        i < j => \/ v[i].occurrences > v[j].occurrences
                 \/ /\ v[i].occurrences = v[j].occurrences
                    /\ ~u64_lt(v[j].hashval, v[i].hashval)

\* C9: the sequence of into_iter is sorted by descending
\* occurrence, then ascending hash value.
C9_OccurrenceOrder ==
    merged => (occ_then_hash_sorted(source_top) /\ occ_then_hash_sorted(dest_top))

\* Length of the span the reference chunking cuts at offset start: up to
\* the first newline within the next max_line_length bytes, else exactly
\* max_line_length bytes; 0 when neither cut exists.
ref_cut_len(data, start) ==
    LET stop == Min(Len(data), start + max_line_length)
        nls == {i \in (start + 1)..stop : data[i] = LF}
    IN IF nls # {} THEN (CHOOSE i \in nls : \A j \in nls : i <= j) - start
       ELSE IF stop - start = max_line_length THEN max_line_length
       ELSE 0

RECURSIVE ref_spans(_, _, _)
\* The spans of the reference chunking, in order.
ref_spans(data, start, acc) ==
    LET n == ref_cut_len(data, start)
    IN IF n = 0 THEN acc
       ELSE ref_spans(data, start + n, Append(acc, SubSeq(data, start + 1, start + n)))

\* The CR of a final CRLF dropped in text mode.
ref_key(sp, is_bin) ==
    IF ~is_bin /\ Len(sp) > 1 /\ sp[Len(sp)] = LF /\ sp[Len(sp) - 1] = CR
    THEN [i \in 1..(Len(sp) - 1) |-> IF i = Len(sp) - 1 THEN LF ELSE sp[i]]
    ELSE sp

\* The SpanhashTop of the reference chunking: one record per distinct key,
\* its occurrence the key's length times the number of spans with that key.
ref_top(data, is_bin) ==
    LET sps == ref_spans(data, 0, <<>>)
        keys == {ref_key(sps[i], is_bin) : i \in 1..Len(sps)}
    IN {[data |-> k, hashval |-> DefaultHasher(k),
         occurrences |-> Len(k) * Cardinality({i \in 1..Len(sps) :
                                                ref_key(sps[i], is_bin) = k})]
        : k \in keys}

\* C10: whatever sizes the successful reads return, from_reader returns the
\* SpanhashTop of the one-shot reference chunking, and every span key has
\* between 1 and max_line_length bytes.
C10_ScheduleIndependent ==
    (rpc = "returned" /\ ~read_err)
    => /\ ret.ok
       /\ ret.top = ref_top(input, is_binary)
       /\ \A e \in ret.top : Len(e.data) >= 1 /\ Len(e.data) <= max_line_length

\* C10 witness: a completed read in which some read() came back short, of an input
\* with a span cut at the span limit and a span cut at a newline.
C10_Witness ==
    /\ rpc = "returned" /\ ~read_err /\ short_read
    /\ \E e \in ret.top : Len(e.data) = max_line_length /\ e.data[max_line_length] # LF
    /\ \E e \in ret.top : Len(e.data) < max_line_length
    /\ Len(input) > max_line_length

====
